---- MODULE Spec2Model ----
(***************************************************************************)
(* Model of the property vector search: the pure helpers of                *)
(* src/src/embedding-utils.js, the PropertySearchEngine class of           *)
(* src/src/vectorSearch.js and the filter-then-rank step of the demo       *)
(* script (src/unnamed/part_000).                                          *)
(*                                                                         *)
(* Numbers.  Embedding coordinates are small integers.  A similarity is    *)
(* kept as the exact fraction [num, den] = sign(dot) * dot^2 / (|a|^2 *    *)
(* |b|^2), the sign-preserving square of the cosine: it is 0 exactly when  *)
(* the cosine is 0 and it orders and equates similarities exactly as the   *)
(* cosine does, which is all that sort() reads.  The provider's            *)
(* coordinates are multiples of 6, so the mean of one, two or three query  *)
(* embeddings is an integer and the division of calculateCentroid is       *)
(* exact.                                                                  *)
(*                                                                         *)
(* Absent JavaScript fields (a filter bound, topK, a record's embedding)   *)
(* are absent from the DOMAIN of the TLA+ record.                          *)
(***************************************************************************)
EXTENDS Integers, Sequences, FiniteSets, TLC

(***************************************************************************)
(* Bounds                                                                  *)
(***************************************************************************)
MaxRecords == 2      \* longest record collection
MaxQueries == 2      \* longest query list given to multiSearch
MaxTopK == 2         \* largest explicit topK
MaxLoading == 2      \* initialize() calls in flight at once
MaxCalls == 2        \* search / multiSearch calls running concurrently

(***************************************************************************)
(* Strings are sequences of one-character strings, so that toLowerCase and *)
(* includes can be computed.                                               *)
(***************************************************************************)
toLowerCaseChar(c) ==
  CASE c = "P" -> "p"
    [] c = "F" -> "f"
    [] c = "K" -> "k"
    [] OTHER -> c

toLowerCase(s) == [i \in 1..Len(s) |-> toLowerCaseChar(s[i])]

\* String.prototype.includes: needle occurs in hay as a contiguous run.
includes(hay, needle) ==
  \E i \in 0..(Len(hay) - Len(needle)) :
    \A j \in 1..Len(needle) : hay[i + j] = needle[j]

PetFriendlyTitle == <<"P","e","t"," ","F","r","i","e","n","d","l","y">>
PetFriendlyLower == <<"p","e","t"," ","f","r","i","e","n","d","l","y">>
Parking == <<"p","a","r","k","i","n","g">>
Pet == <<"p","e","t">>

(***************************************************************************)
(* Errors: the class name and the message, as the parts it was built from. *)
(***************************************************************************)
MsgNotInitialized == "SearchEngine not initialized. Call initialize() first."
MsgQuery == "Query must be a non-empty string"
MsgProperties == "Properties must be a non-empty array"
MsgLength == "Vectors must have the same length"
MsgUndefined == "Cannot read properties of undefined"
MsgNull == "Cannot read properties of null"
MsgProvider == "provider failure"
MsgCentroidEmpty == "Cannot calculate centroid of empty array"

Err(msg) == [name |-> "Error", message |-> <<msg>>]
TypeErr(msg) == [name |-> "TypeError", message |-> <<msg>>]
\* new Error(`${prefix}${error.message}`)
Rewrap(prefix, e) == [name |-> "Error", message |-> <<prefix>> \o e.message]

Thrown(e) == [ok |-> FALSE, error |-> e]
Returned(v) == [ok |-> TRUE, value |-> v]

(***************************************************************************)
(* Vector math (embedding-utils.js)                                        *)
(***************************************************************************)
RECURSIVE SumTo(_, _)
SumTo(f, n) == IF n = 0 THEN 0 ELSE f[n] + SumTo(f, n - 1)

Dot(a, b) == SumTo([i \in 1..Len(a) |-> a[i] * b[i]], Len(a))

Zero == [num |-> 0, den |-> 1]

\* The loop of cosineSimilarity after its length check.
cosineValue(a, b) ==
  LET dotProduct == Dot(a, b)
      magnitudeA2 == Dot(a, a)
      magnitudeB2 == Dot(b, b)
  IN  IF magnitudeA2 = 0 \/ magnitudeB2 = 0
      THEN Zero
      ELSE [num |-> (IF dotProduct < 0 THEN -1 ELSE 1) * dotProduct * dotProduct,
            den |-> magnitudeA2 * magnitudeB2]

cosineSimilarity(a, b) ==
  IF Len(a) # Len(b) THEN Thrown(Err(MsgLength)) ELSE Returned(cosineValue(a, b))

\* The sign of x - y for two similarities.
SimCompare(x, y) ==
  LET l == x.num * y.den
      r == y.num * x.den
  IN  IF l > r THEN 1 ELSE IF l < r THEN -1 ELSE 0

(***************************************************************************)
(* Records and filters                                                     *)
(***************************************************************************)
HasEmbedding(property) == "embedding" \in DOMAIN property

FilterBounds == {"minPrice", "maxPrice", "minBedrooms", "maxBedrooms", "minBathrooms"}

\* JavaScript truthiness of filters[f] for a numeric bound: present and not 0.
Truthy(filters, f) == f \in DOMAIN filters /\ filters[f] # 0

\* hasAllAmenities without the two toLowerCase calls.
hasAllAmenitiesCaseSensitive(property, requiredAmenities) ==
  \A k \in 1..Len(requiredAmenities) :
    \E m \in 1..Len(property.amenities) :
      includes(property.amenities[m], requiredAmenities[k])

hasAllAmenities(property, requiredAmenities) ==
  \A k \in 1..Len(requiredAmenities) :
    \E m \in 1..Len(property.amenities) :
      includes(toLowerCase(property.amenities[m]), toLowerCase(requiredAmenities[k]))

\* The callback given to properties.filter in filterProperties and applyFilters.
passesFilters(property, filters) ==
  /\ ~(Truthy(filters, "minPrice") /\ property.price < filters.minPrice)
  /\ ~(Truthy(filters, "maxPrice") /\ property.price > filters.maxPrice)
  /\ ~(Truthy(filters, "minBedrooms") /\ property.bedrooms < filters.minBedrooms)
  /\ ~(Truthy(filters, "maxBedrooms") /\ property.bedrooms > filters.maxBedrooms)
  /\ ~(Truthy(filters, "minBathrooms") /\ property.bathrooms < filters.minBathrooms)
  /\ ~(/\ "requiredAmenities" \in DOMAIN filters
       /\ Len(filters.requiredAmenities) > 0
       /\ ~hasAllAmenities(property, filters.requiredAmenities))

\* FilterSeq that collects the kept records in front (unshift for push).
RECURSIVE FilterSeqReversed(_, _)
FilterSeqReversed(s, filters) ==
  IF s = <<>> THEN <<>>
  ELSE FilterSeqReversed(Tail(s), filters)
       \o (IF passesFilters(Head(s), filters) THEN <<Head(s)>> ELSE <<>>)

RECURSIVE FilterSeq(_, _)
FilterSeq(s, filters) ==
  IF s = <<>> THEN <<>>
  ELSE (IF passesFilters(Head(s), filters) THEN <<Head(s)>> ELSE <<>>)
       \o FilterSeq(Tail(s), filters)

filterProperties(properties, filters) == FilterSeq(properties, filters)

applyFilters(properties, filters) == FilterSeq(properties, filters)

(***************************************************************************)
(* Ranking                                                                 *)
(***************************************************************************)
\* { ...property, similarity: sim }
withSimilarity(property, sim) ==
  [k \in DOMAIN property \cup {"similarity"} |->
     IF k = "similarity" THEN sim ELSE property[k]]

\* The call cosineSimilarity(queryEmbedding, property.embedding): reading
\* b.length of an absent embedding is a TypeError.
similarityOf(queryEmbedding, property) ==
  IF ~HasEmbedding(property)
  THEN Thrown(TypeErr(MsgUndefined))
  ELSE cosineSimilarity(queryEmbedding, property.embedding)

\* properties.map(property => ({...property, similarity: ...})): the first
\* callback that throws ends the map.
RECURSIVE mapSimilarity(_, _)
mapSimilarity(queryEmbedding, properties) ==
  IF properties = <<>> THEN Returned(<<>>)
  ELSE LET sim == similarityOf(queryEmbedding, Head(properties))
       IN  IF ~sim.ok THEN sim
           ELSE LET rest == mapSimilarity(queryEmbedding, Tail(properties))
                IN  IF ~rest.ok THEN rest
                    ELSE Returned(<<withSimilarity(Head(properties), sim.value)>>
                                  \o rest.value)

\* The map of search (lines 98-108): a record without an embedding gives null,
\* which filter(Boolean) removes.
RECURSIVE mapSkipMissing(_, _)
mapSkipMissing(queryEmbedding, properties) ==
  IF properties = <<>> THEN Returned(<<>>)
  ELSE IF ~HasEmbedding(Head(properties))
       THEN mapSkipMissing(queryEmbedding, Tail(properties))
       ELSE LET sim == similarityOf(queryEmbedding, Head(properties))
            IN  IF ~sim.ok THEN sim
                ELSE LET rest == mapSkipMissing(queryEmbedding, Tail(properties))
                     IN  IF ~rest.ok THEN rest
                         ELSE Returned(<<withSimilarity(Head(properties), sim.value)>>
                                       \o rest.value)

\* compareDesc with the operands swapped: a.similarity - b.similarity.
compareAsc(a, b) == SimCompare(a.similarity, b.similarity)

\* The comparator (a, b) => b.similarity - a.similarity, as a sign.
compareDesc(a, b) == SimCompare(b.similarity, a.similarity)

\* Array.prototype.sort is stable: x goes before the first element that the
\* comparator puts after it, and after every element it ties with.
RECURSIVE insertSorted(_, _)
insertSorted(sorted, x) ==
  IF sorted = <<>> THEN <<x>>
  ELSE IF compareDesc(Head(sorted), x) > 0
       THEN <<x>> \o sorted
       ELSE <<Head(sorted)>> \o insertSorted(Tail(sorted), x)

RECURSIVE sortDesc(_)
sortDesc(s) ==
  IF s = <<>> THEN <<>>
  ELSE insertSorted(sortDesc(SubSeq(s, 1, Len(s) - 1)), s[Len(s)])

\* Array.prototype.slice(0, end): a negative end counts from the back.
slice0(s, end) ==
  LET stop == IF end < 0
              THEN (IF Len(s) + end < 0 THEN 0 ELSE Len(s) + end)
              ELSE (IF end > Len(s) THEN Len(s) ELSE end)
  IN  SubSeq(s, 1, stop)

DefaultTopK == 5

findSimilarProperties(queryEmbedding, properties, topK) ==
  LET similarities == mapSimilarity(queryEmbedding, properties)
  IN  IF ~similarities.ok THEN similarities
      ELSE Returned(slice0(sortDesc(similarities.value), topK))

\* calculateCentroid of the engine (vectorSearch.js): the mean, not normalised,
\* and [] for no embeddings.
calculateCentroid(embeddings) ==
  IF Len(embeddings) = 0 THEN <<>>
  ELSE LET dimensions == Len(embeddings[1])
       IN  [i \in 1..dimensions |->
              SumTo([e \in 1..Len(embeddings) |-> embeddings[e][i]], Len(embeddings))
                \div Len(embeddings)]

\* calculateCentroid of embedding-utils.js.  The value is kept as its parts:
\* coordinate i is NaN when i is in nan (some embedding has no element i, and
\* undefined added to a number is NaN), else sum[i] / count, divided by the
\* magnitude when normalized.  A magnitude that is NaN is not > 0, so a
\* centroid with a NaN coordinate is returned without the normalisation.
calculateCentroidNormalized(embeddings) ==
  IF Len(embeddings) = 0 THEN Thrown(Err(MsgCentroidEmpty))
  ELSE LET dimensions == Len(embeddings[1])
           nan == { d \in 1..dimensions :
                      \E e \in 1..Len(embeddings) : Len(embeddings[e]) < d }
           sum == [d \in 1..dimensions |->
                     IF d \in nan THEN 0
                     ELSE SumTo([e \in 1..Len(embeddings) |-> embeddings[e][d]],
                                Len(embeddings))]
       IN  Returned([sum |-> sum, nan |-> nan, count |-> Len(embeddings),
                     normalized |-> nan = {} /\ Dot(sum, sum) > 0])

(***************************************************************************)
(* Inputs                                                                  *)
(***************************************************************************)
Property(id, price, bedrooms, bathrooms, amenities) ==
  [id |-> id, price |-> price, bedrooms |-> bedrooms, bathrooms |-> bathrooms,
   amenities |-> amenities]

WithEmbedding(property, embedding) ==
  [k \in DOMAIN property \cup {"embedding"} |->
     IF k = "embedding" THEN embedding ELSE property[k]]

\* The records a collection is drawn from: two prices, three bedroom counts,
\* two bathroom counts, amenities in both cases, two records that tie against
\* an axis query, one record without an embedding and one whose embedding has
\* another length.
Pool ==
  { WithEmbedding(Property(1, 3000, 0, 1, <<Parking>>), <<1, 0>>),
    WithEmbedding(Property(2, 5000, 2, 2, <<PetFriendlyTitle, Parking>>), <<0, 1>>),
    WithEmbedding(Property(3, 3000, 2, 1, <<>>), <<2, 0>>),
    Property(4, 5000, 0, 2, <<PetFriendlyTitle>>),
    WithEmbedding(Property(5, 3000, 1, 1, <<>>), <<1>>) }

SeqsUpTo(S, n) == UNION { [1..k -> S] : k \in 0..n }

Collections ==
  { c \in SeqsUpTo(Pool, MaxRecords) :
      \A i, j \in 1..Len(c) : i # j => c[i].id # c[j].id }

BoundValues(f) ==
  CASE f \in {"minPrice", "maxPrice"} -> {0, 4000}
    [] f \in {"minBedrooms", "maxBedrooms"} -> {0, 1}
    [] f = "minBathrooms" -> {0, 2}

\* FilterSpecs: {}, every single bound, three amenity lists, and two specs
\* with two fields (the first is the demo's studio query, src/unnamed/part_000
\* line 29, with the price moved between the pool's prices).
FilterSpecs ==
  { <<>> }
  \cup UNION { { [k \in {f} |-> v] : v \in BoundValues(f) } : f \in FilterBounds }
  \cup { [requiredAmenities |-> a] : a \in { <<>>, <<PetFriendlyLower>>, <<Pet, Parking>> } }
  \cup { [maxPrice |-> 4000, maxBedrooms |-> 0],
         [minPrice |-> 4000, requiredAmenities |-> <<PetFriendlyLower>>] }

TopKs == (-1)..MaxTopK

\* options after the destructuring of line 70 / 163: topK may be absent.
\* Every filter with the default topK and with topK 1 (which truncates), and
\* every topK with no filter.
OptionSets ==
  { [filters |-> f] : f \in FilterSpecs }
  \cup { [topK |-> 1, filters |-> f] : f \in FilterSpecs }
  \cup { [topK |-> k, filters |-> <<>>] : k \in TopKs }

topKOf(options) == IF "topK" \in DOMAIN options THEN options.topK ELSE DefaultTopK

NotAString == "<not a string>"
QueryTexts == {"", "q1", "q2"}
QueryArgs == QueryTexts \cup {NotAString}
QueryLists == SeqsUpTo({"", "q1"}, MaxQueries)

\* The properties argument of a call: the shared collection, or null.
PropsArgs == {"collection", "null"}

\* The embedding provider: one fixed vector per text.
embed(text) ==
  CASE text = "q1" -> <<6, 0>>
    [] text = "q2" -> <<0, 6>>
    [] OTHER -> <<6, 6>>

QueryEmbeddings == { embed(t) : t \in QueryTexts }

\* The lists given to calculateCentroid of embedding-utils.js: two opposite
\* vectors of the provider's length, a shorter one and a longer one.
CentroidLists == SeqsUpTo({ <<6, 0>>, <<-6, 0>>, <<6>>, <<6, 0, 6>> }, MaxQueries)

(***************************************************************************)
(* State                                                                   *)
(***************************************************************************)
VARIABLES
  properties,      \* the record collection the caller holds and passes to calls
  embedder,        \* this.embedder: "null" or "pipeline"
  isInitialized,   \* this.isInitialized
  loading,         \* initialize() calls awaiting pipeline(...)
  calls            \* per call: where it is, its arguments, its outcome

vars == <<properties, embedder, isInitialized, loading, calls>>

Idle == [pc |-> "idle"]

\* A call suspended at its await, with one provider request per text.
Awaiting(op, args, n) ==
  [pc |-> "awaiting", op |-> op, args |-> args, requests |-> [i \in 1..n |-> "pending"]]

\* A settled call: what the caller's promise holds, and what console.warn named.
Done(op, args, requests, outcome, warned) ==
  [pc |-> "done", op |-> op, args |-> args, requests |-> requests,
   outcome |-> outcome, warned |-> warned]

\* constructor(), and a caller holding some record collection.
Init ==
  /\ properties \in Collections
  /\ embedder = "null"
  /\ isInitialized = FALSE
  /\ loading = 0
  /\ calls = [c \in {1} |-> Idle]

(***************************************************************************)
(* initialize()                                                            *)
(***************************************************************************)
\* Lines 18-27: up to the await of pipeline(...).
InitializeStart ==
  /\ loading < MaxLoading
  /\ loading' = loading + 1
  /\ UNCHANGED <<properties, embedder, isInitialized, calls>>

\* Lines 23-30: pipeline resolved.
InitializeResolve ==
  /\ loading > 0
  /\ loading' = loading - 1
  /\ embedder' = "pipeline"
  /\ isInitialized' = TRUE
  /\ UNCHANGED <<properties, calls>>

\* A catch block that would clear the engine on a failed load.
InitializeRejectResets ==
  /\ loading > 0
  /\ loading' = loading - 1
  /\ embedder' = "null"
  /\ isInitialized' = FALSE
  /\ UNCHANGED <<properties, calls>>

\* Lines 31-34: pipeline rejected; the assignment of line 23 never happens.
InitializeReject ==
  /\ loading > 0
  /\ loading' = loading - 1
  /\ UNCHANGED <<properties, embedder, isInitialized, calls>>

(***************************************************************************)
(* Calls: the synchronous part, up to the first await                      *)
(***************************************************************************)
propsOf(args) == IF args.props = "null" THEN <<>> ELSE properties

GenerateEmbeddingCall(c, text) ==
  /\ calls[c].pc = "idle"
  /\ LET args == [text |-> text]
     IN  calls' = [calls EXCEPT ![c] =
           IF ~isInitialized
           THEN Done("generateEmbedding", args, <<>>, Thrown(Err(MsgNotInitialized)), <<>>)
           ELSE Awaiting("generateEmbedding", args, 1)]
  /\ UNCHANGED <<properties, embedder, isInitialized, loading>>

\* searchEntry without the check of lines 80-82.
searchEntryNoCollectionCheck(args) ==
  IF ~isInitialized THEN Thrown(Err(MsgNotInitialized))
  ELSE IF args.query = "" \/ args.query = NotAString THEN Thrown(Err(MsgQuery))
  ELSE Returned("await")

\* Lines 69-88.
searchEntry(args) ==
  IF ~isInitialized THEN Thrown(Err(MsgNotInitialized))
  ELSE IF args.query = "" \/ args.query = NotAString THEN Thrown(Err(MsgQuery))
  ELSE IF args.props = "null" \/ Len(properties) = 0 THEN Thrown(Err(MsgProperties))
  ELSE Returned("await")

SearchCall(c, query, props, options) ==
  /\ calls[c].pc = "idle"
  /\ LET args == [query |-> query, props |-> props, options |-> options]
         entry == searchEntry(args)
     IN  calls' = [calls EXCEPT ![c] =
           IF ~entry.ok
           THEN Done("search", args, <<>>, entry, <<>>)
           ELSE Awaiting("search", args, 1)]
  /\ UNCHANGED <<properties, embedder, isInitialized, loading>>

\* Lines 162-168: queries.map starts one generateEmbedding per query; each of
\* them throws at line 44 when the engine is not initialized, and Promise.all
\* rejects with the first rejection.  No query, no generateEmbedding call.
MultiSearchCall(c, queries, props, options) ==
  /\ calls[c].pc = "idle"
  /\ LET args == [queries |-> queries, props |-> props, options |-> options]
     IN  calls' = [calls EXCEPT ![c] =
           IF Len(queries) > 0 /\ ~isInitialized
           THEN Done("multiSearch", args, <<>>, Thrown(Err(MsgNotInitialized)), <<>>)
           ELSE Awaiting("multiSearch", args, Len(queries))]
  /\ UNCHANGED <<properties, embedder, isInitialized, loading>>

\* The demo's filter-then-rank step (src/unnamed/part_000 lines 65-69), for
\* any query embedding, filters and topK.
FindSimilarCall(c, queryEmbedding, filters, topK) ==
  /\ calls[c].pc = "idle"
  /\ LET args == [queryEmbedding |-> queryEmbedding, filters |-> filters, topK |-> topK]
         filteredProperties == filterProperties(properties, filters)
     IN  calls' = [calls EXCEPT ![c] =
           Done("findSimilarProperties", args, <<>>,
                findSimilarProperties(queryEmbedding, filteredProperties, topK), <<>>)]
  /\ UNCHANGED <<properties, embedder, isInitialized, loading>>

\* A direct call of calculateCentroid of embedding-utils.js (lines 90-119).
CalculateCentroidCall(c, embeddings) ==
  /\ calls[c].pc = "idle"
  /\ calls' = [calls EXCEPT ![c] =
       Done("calculateCentroid", [embeddings |-> embeddings], <<>>,
            calculateCentroidNormalized(embeddings), <<>>)]
  /\ UNCHANGED <<properties, embedder, isInitialized, loading>>

(***************************************************************************)
(* The embedding provider answers                                          *)
(***************************************************************************)
ProviderResolve(c, i) ==
  /\ calls[c].pc = "awaiting"
  /\ i \in DOMAIN calls[c].requests
  /\ calls[c].requests[i] = "pending"
  /\ calls' = [calls EXCEPT ![c].requests[i] = "ok"]
  /\ UNCHANGED <<properties, embedder, isInitialized, loading>>

\* ProviderReject with a retry: the failed request is followed by a new one.
ProviderRejectRetry(c, i) ==
  /\ calls[c].pc = "awaiting"
  /\ i \in DOMAIN calls[c].requests
  /\ calls[c].requests[i] = "pending"
  /\ Len(calls[c].requests) <= MaxQueries
  /\ calls' = [calls EXCEPT ![c].requests =
                 Append([calls[c].requests EXCEPT ![i] = "failed"], "pending")]
  /\ UNCHANGED <<properties, embedder, isInitialized, loading>>

\* ProviderReject with the failure kept per request: the call goes on waiting.
ProviderRejectSettled(c, i) ==
  /\ calls[c].pc = "awaiting"
  /\ i \in DOMAIN calls[c].requests
  /\ calls[c].requests[i] = "pending"
  /\ calls' = [calls EXCEPT ![c].requests[i] = "failed"]
  /\ UNCHANGED <<properties, embedder, isInitialized, loading>>

\* Lines 54-57 wrap the provider's error; search wraps it again (118-121),
\* multiSearch lets Promise.all's rejection through.
ProviderReject(c, i) ==
  /\ calls[c].pc = "awaiting"
  /\ i \in DOMAIN calls[c].requests
  /\ calls[c].requests[i] = "pending"
  /\ LET call == calls[c]
         failed == Rewrap("Failed to generate embedding: ", Err(MsgProvider))
         error == IF call.op = "search" THEN Rewrap("Search failed: ", failed) ELSE failed
     IN  calls' = [calls EXCEPT ![c] =
           Done(call.op, call.args, [call.requests EXCEPT ![i] = "failed"],
                Thrown(error), <<>>)]
  /\ UNCHANGED <<properties, embedder, isInitialized, loading>>

\* A wait that ends with the first answer.
AnyArrived(call) == \E i \in DOMAIN call.requests : call.requests[i] = "ok"

\* The await of line 88, and Promise.all of lines 166-168, with no rejection.
AllArrived(call) == \A i \in DOMAIN call.requests : call.requests[i] = "ok"

(***************************************************************************)
(* Calls: the continuation after the await                                 *)
(***************************************************************************)
GenerateEmbeddingReturn(c) ==
  /\ calls[c].pc = "awaiting"
  /\ calls[c].op = "generateEmbedding"
  /\ AllArrived(calls[c])
  /\ LET call == calls[c]
     IN  calls' = [calls EXCEPT ![c] =
           Done(call.op, call.args, call.requests, Returned(embed(call.args.text)), <<>>)]
  /\ UNCHANGED <<properties, embedder, isInitialized, loading>>

\* Lines 90-95.
searchFiltered(props, filters) ==
  IF DOMAIN filters # {} THEN applyFilters(props, filters) ELSE props

\* console.warn of line 100, for the records the map reaches before it throws.
RECURSIVE warnedIds(_, _)
warnedIds(queryEmbedding, props) ==
  IF props = <<>> THEN <<>>
  ELSE IF ~HasEmbedding(Head(props))
       THEN <<Head(props).id>> \o warnedIds(queryEmbedding, Tail(props))
       ELSE IF ~similarityOf(queryEmbedding, Head(props)).ok THEN <<>>
            ELSE warnedIds(queryEmbedding, Tail(props))

\* Lines 97-121.
searchRank(queryEmbedding, props, options) ==
  LET filteredProperties == searchFiltered(props, options.filters)
      results == mapSkipMissing(queryEmbedding, filteredProperties)
  IN  IF ~results.ok THEN Thrown(Rewrap("Search failed: ", results.error))
      ELSE Returned(slice0(sortDesc(results.value), topKOf(options)))

\* SearchRank sorting the caller's array itself, scores attached to its records.
SearchRankInPlace(c) ==
  /\ calls[c].pc = "awaiting"
  /\ calls[c].op = "search"
  /\ AllArrived(calls[c])
  /\ LET call == calls[c]
         queryEmbedding == embed(call.args.query)
         scored == mapSkipMissing(queryEmbedding, propsOf(call.args))
     IN  /\ calls' = [calls EXCEPT ![c] =
              Done(call.op, call.args, call.requests,
                   searchRank(queryEmbedding, propsOf(call.args), call.args.options),
                   <<>>)]
         /\ properties' = IF scored.ok THEN sortDesc(scored.value) ELSE properties
  /\ UNCHANGED <<embedder, isInitialized, loading>>

SearchRank(c) ==
  /\ calls[c].pc = "awaiting"
  /\ calls[c].op = "search"
  /\ AllArrived(calls[c])
  /\ LET call == calls[c]
         queryEmbedding == embed(call.args.query)
     IN  calls' = [calls EXCEPT ![c] =
           Done(call.op, call.args, call.requests,
                searchRank(queryEmbedding, propsOf(call.args), call.args.options),
                warnedIds(queryEmbedding,
                          searchFiltered(propsOf(call.args), call.args.options.filters)))]
  /\ UNCHANGED <<properties, embedder, isInitialized, loading>>

\* Lines 170-181: options.filters is never read.
multiSearchRank(queryEmbeddings, args) ==
  LET avgEmbedding == calculateCentroid(queryEmbeddings)
      results == IF args.props = "null" THEN Thrown(TypeErr(MsgNull))
                 ELSE mapSimilarity(avgEmbedding, properties)
  IN  IF ~results.ok THEN results
      ELSE Returned(slice0(sortDesc(results.value), topKOf(args.options)))

MultiSearchRank(c) ==
  /\ calls[c].pc = "awaiting"
  /\ calls[c].op = "multiSearch"
  /\ AllArrived(calls[c])
  /\ LET call == calls[c]
         queryEmbeddings == [i \in 1..Len(call.args.queries) |-> embed(call.args.queries[i])]
     IN  calls' = [calls EXCEPT ![c] =
           Done(call.op, call.args, call.requests,
                multiSearchRank(queryEmbeddings, call.args), <<>>)]
  /\ UNCHANGED <<properties, embedder, isInitialized, loading>>

(***************************************************************************)
(* Specification                                                           *)
(***************************************************************************)
\* A call given null reads no collection: it is drawn beside the empty one only.
PropsArgsNow == IF properties = <<>> THEN PropsArgs ELSE {"collection"}

Next ==
  \/ InitializeStart
  \/ InitializeResolve
  \/ InitializeReject
  \/ \E c \in DOMAIN calls : calls[c].pc = "idle" /\
       \E text \in QueryTexts : GenerateEmbeddingCall(c, text)
  \/ \E c \in DOMAIN calls : calls[c].pc = "idle" /\
       \E query \in QueryArgs, props \in PropsArgsNow, options \in OptionSets :
         SearchCall(c, query, props, options)
  \/ \E c \in DOMAIN calls : calls[c].pc = "idle" /\
       \E queries \in QueryLists, props \in PropsArgsNow, options \in OptionSets :
         MultiSearchCall(c, queries, props, options)
  \/ \E c \in DOMAIN calls : calls[c].pc = "idle" /\
       \E queryEmbedding \in QueryEmbeddings, filters \in FilterSpecs,
          topK \in TopKs \cup {DefaultTopK} :
         FindSimilarCall(c, queryEmbedding, filters, topK)
  \/ \E c \in DOMAIN calls : calls[c].pc = "idle" /\
       \E embeddings \in CentroidLists : CalculateCentroidCall(c, embeddings)
  \/ \E c \in DOMAIN calls : calls[c].pc = "awaiting" /\
       \E i \in DOMAIN calls[c].requests : ProviderResolve(c, i)
  \/ \E c \in DOMAIN calls : calls[c].pc = "awaiting" /\
       \E i \in DOMAIN calls[c].requests : ProviderReject(c, i)
  \/ \E c \in DOMAIN calls : GenerateEmbeddingReturn(c)
  \/ \E c \in DOMAIN calls : SearchRank(c)
  \/ \E c \in DOMAIN calls : MultiSearchRank(c)

Spec == Init /\ [][Next]_vars

(***************************************************************************)
(* Concurrent calls: several search / multiSearch calls on one engine over *)
(* one collection, their awaits interleaved in every order.                *)
(***************************************************************************)
\* Two-record collections of records that all have an embedding; records 1
\* and 3 tie against q1, and q2 ranks record 2 first wherever it stands.
ConcCollections ==
  { c \in Collections : Len(c) = 2 /\ \A i \in 1..Len(c) : c[i].id \in {1, 2, 3} }

ConcQueries == {"q1", "q2"}
ConcQueryLists == { <<"q1", "q2">> }
ConcSearchOptions == { [filters |-> <<>>] }
ConcMultiSearchOptions == { [topK |-> 1, filters |-> <<>>] }

InitConc ==
  /\ properties \in ConcCollections
  /\ embedder = "null"
  /\ isInitialized = FALSE
  /\ loading = 0
  /\ calls = [c \in 1..MaxCalls |-> Idle]

NextConc ==
  \/ InitializeStart
  \/ InitializeResolve
  \/ InitializeReject
  \/ \E c \in DOMAIN calls : calls[c].pc = "idle" /\
       \E query \in ConcQueries, options \in ConcSearchOptions :
         SearchCall(c, query, "collection", options)
  \/ \E c \in DOMAIN calls : calls[c].pc = "idle" /\
       \E queries \in ConcQueryLists, options \in ConcMultiSearchOptions :
         MultiSearchCall(c, queries, "collection", options)
  \/ \E c \in DOMAIN calls : calls[c].pc = "awaiting" /\
       \E i \in DOMAIN calls[c].requests : ProviderResolve(c, i)
  \/ \E c \in DOMAIN calls : calls[c].pc = "awaiting" /\
       \E i \in DOMAIN calls[c].requests : ProviderReject(c, i)
  \/ \E c \in DOMAIN calls : SearchRank(c)
  \/ \E c \in DOMAIN calls : MultiSearchRank(c)

SpecConc == InitConc /\ [][NextConc]_vars

(***************************************************************************)
(* Vocabulary of the properties                                            *)
(***************************************************************************)
DoneCalls == { c \in DOMAIN calls : calls[c].pc = "done" }

Min(a, b) == IF a < b THEN a ELSE b

\* A FilterSpec as the data model reads it: a bound is a constraint whenever
\* the field is present.
boundsSatisfied(property, filters) ==
  /\ "minPrice" \in DOMAIN filters => property.price >= filters.minPrice
  /\ "maxPrice" \in DOMAIN filters => property.price <= filters.maxPrice
  /\ "minBedrooms" \in DOMAIN filters => property.bedrooms >= filters.minBedrooms
  /\ "maxBedrooms" \in DOMAIN filters => property.bedrooms <= filters.maxBedrooms
  /\ "minBathrooms" \in DOMAIN filters => property.bathrooms >= filters.minBathrooms

amenitiesSatisfied(property, filters) ==
  "requiredAmenities" \in DOMAIN filters =>
    \A k \in 1..Len(filters.requiredAmenities) :
      \E m \in 1..Len(property.amenities) :
        includes(toLowerCase(property.amenities[m]),
                 toLowerCase(filters.requiredAmenities[k]))

\* The filters, topK and query embedding a ranking call works with.
filtersOf(call) ==
  IF call.op = "findSimilarProperties" THEN call.args.filters ELSE call.args.options.filters

explicitTopK(call) ==
  IF call.op = "findSimilarProperties" THEN TRUE ELSE "topK" \in DOMAIN call.args.options

topKGiven(call) ==
  IF call.op = "findSimilarProperties" THEN call.args.topK ELSE topKOf(call.args.options)

queryVector(call) ==
  CASE call.op = "search" -> embed(call.args.query)
    [] call.op = "findSimilarProperties" -> call.args.queryEmbedding
    [] call.op = "multiSearch" ->
         calculateCentroid([i \in 1..Len(call.args.queries) |-> embed(call.args.queries[i])])

RankOps == {"search", "multiSearch", "findSimilarProperties"}

\* The records a ranking call has to rank: those the code's filter keeps (none
\* is applied by multiSearch) and that carry an embedding.
qualifying(call) ==
  LET keep(property) ==
        /\ HasEmbedding(property)
        /\ call.op # "multiSearch" => passesFilters(property, filtersOf(call))
  IN  SelectSeq(properties, keep)

\* Every embedding among the records has the query vector's length.
sameLengths(call) ==
  \A j \in 1..Len(properties) :
    HasEmbedding(properties[j]) => Len(properties[j].embedding) = Len(queryVector(call))

someMissingEmbedding == \E j \in 1..Len(properties) : ~HasEmbedding(properties[j])

\* The call got as far as ranking: it was not refused and no request failed.
reachedRanking(call) ==
  /\ call.pc = "done"
  /\ call.op \in RankOps
  /\ call.op # "findSimilarProperties" =>
       /\ call.args.props = "collection"
       /\ \A i \in DOMAIN call.requests : call.requests[i] = "ok"
       /\ call.op = "search" => Len(call.requests) = 1
       /\ call.op = "multiSearch" =>
            Len(call.requests) = Len(call.args.queries) /\ call.args.queries # <<>>

(***************************************************************************)
(* C1: filter keeps a record only if every bound present in the FilterSpec *)
(* is satisfied, a bound of 0 included (the claim as stated; the code      *)
(* ignores a bound of 0).                                                  *)
(***************************************************************************)
C1_FilterKeepsOnlyWithinBounds ==
  \A c \in DoneCalls :
    (calls[c].op = "findSimilarProperties" /\ calls[c].outcome.ok) =>
      \A i \in 1..Len(calls[c].outcome.value) :
        boundsSatisfied(calls[c].outcome.value[i], calls[c].args.filters)

(***************************************************************************)
(* C2: while the engine is Uninitialized every settled search, multiSearch *)
(* or generateEmbedding call has failed with the NotInitialized error (the *)
(* claim as stated; multiSearch with no query never reaches the check).    *)
(* isInitialized never goes back to FALSE, so a call settled while it is   *)
(* FALSE was made while it was FALSE.                                      *)
(***************************************************************************)
C2_UninitializedCallFails ==
  ~isInitialized =>
    \A c \in DoneCalls :
      calls[c].op \in {"search", "multiSearch", "generateEmbedding"} =>
        calls[c].outcome = Thrown(Err(MsgNotInitialized))

(***************************************************************************)
(* C3: every record multiSearch returns passes the filters of its options, *)
(* as the code's own filter decides (the claim as stated; multiSearch      *)
(* never reads options.filters).                                           *)
(***************************************************************************)
C3_MultiSearchResultsPassFilters ==
  \A c \in DoneCalls :
    (calls[c].op = "multiSearch" /\ calls[c].outcome.ok) =>
      \A i \in 1..Len(calls[c].outcome.value) :
        passesFilters(calls[c].outcome.value[i], calls[c].args.options.filters)

(***************************************************************************)
(* C4: every record search returns satisfies the FilterSpec of the call:   *)
(* each bound present and the required amenities (the claim as stated; it  *)
(* fails for a bound of 0, the bug of C1).                                 *)
(***************************************************************************)
C4_SearchResultsSatisfyFilterSpec ==
  \A c \in DoneCalls :
    (calls[c].op = "search" /\ calls[c].outcome.ok) =>
      \A i \in 1..Len(calls[c].outcome.value) :
        /\ boundsSatisfied(calls[c].outcome.value[i], calls[c].args.options.filters)
        /\ amenitiesSatisfied(calls[c].outcome.value[i], calls[c].args.options.filters)

(***************************************************************************)
(* C5: a ranking call given topK <= 0 does not return a result list (the   *)
(* claim as stated; the code slices with it).                              *)
(***************************************************************************)
C5_NonPositiveTopKFails ==
  \A c \in DoneCalls :
    (calls[c].op \in RankOps /\ explicitTopK(calls[c]) /\ topKGiven(calls[c]) <= 0) =>
      ~calls[c].outcome.ok

(***************************************************************************)
(* C6: a ranking by search or findSimilarProperties with a positive topK,  *)
(* over records whose embeddings have the query's length, returns exactly  *)
(* min(topK, number of qualifying records) results (the claim as stated;   *)
(* findSimilarProperties throws on a record without an embedding, the bug  *)
(* of C8).                                                                 *)
(***************************************************************************)
C6_RankReturnsMinTopKQualifying ==
  \A c \in DoneCalls :
    (/\ calls[c].op \in {"search", "findSimilarProperties"}
     /\ reachedRanking(calls[c])
     /\ sameLengths(calls[c])
     /\ topKGiven(calls[c]) > 0) =>
      /\ calls[c].outcome.ok
      /\ Len(calls[c].outcome.value) = Min(topKGiven(calls[c]), Len(qualifying(calls[c])))

(***************************************************************************)
(* C7: a result list of search, multiSearch or findSimilarProperties holds *)
(* qualifying records, each with its similarity to the query; it is in     *)
(* descending order of similarity, records of equal similarity in their    *)
(* input order; and with a positive topK it is the first min(topK, n) of   *)
(* the n qualifying records in that order: every qualifying record left    *)
(* out scores lower than each returned one, or equal and comes later in    *)
(* the input.                                                              *)
(***************************************************************************)
\* The place in s of the record with this id.
placeOf(s, id) == CHOOSE j \in 1..Len(s) : s[j].id = id

C7_RankSortedStableTopK ==
  \A c \in DoneCalls :
    (calls[c].op \in RankOps /\ calls[c].outcome.ok) =>
      LET res == calls[c].outcome.value
          cand == qualifying(calls[c])
          q == queryVector(calls[c])
          k == topKGiven(calls[c])
          precedes(i, j) ==   \* res[i] ranks before the candidate cand[j]
            LET cmp == SimCompare(res[i].similarity, cosineValue(q, cand[j].embedding))
            IN  cmp > 0 \/ (cmp = 0 /\ placeOf(cand, res[i].id) < j)
      IN  /\ \A i \in 1..Len(res) :
               \E j \in 1..Len(cand) :
                 res[i] = withSimilarity(cand[j], cosineValue(q, cand[j].embedding))
          /\ \A i \in 1..(Len(res) - 1) :
               precedes(i, placeOf(cand, res[i + 1].id))
          /\ k > 0 =>
               /\ Len(res) = Min(k, Len(cand))
               /\ \A j \in 1..Len(cand) :
                    (\A i \in 1..Len(res) : res[i].id # cand[j].id) =>
                      \A i \in 1..Len(res) : precedes(i, j)

\* A search returned two records of equal similarity.
C7_Witness ==
  \E c \in DoneCalls :
    /\ calls[c].op = "search"
    /\ calls[c].outcome.ok
    /\ Len(calls[c].outcome.value) = 2
    /\ SimCompare(calls[c].outcome.value[1].similarity,
                  calls[c].outcome.value[2].similarity) = 0
    /\ calls[c].outcome.value[1].similarity.num > 0

(***************************************************************************)
(* C8: a record without an embedding never aborts a search or multiSearch: *)
(* a call that got as far as ranking, over records whose embeddings have   *)
(* the query's length, returns a list (the claim as stated; multiSearch    *)
(* throws on such a record, and neither call returns a warnings list).     *)
(***************************************************************************)
C8_MissingEmbeddingNeverAborts ==
  \A c \in DoneCalls :
    (/\ calls[c].op \in {"search", "multiSearch"}
     /\ reachedRanking(calls[c])
     /\ sameLengths(calls[c])
     /\ someMissingEmbedding) =>
      calls[c].outcome.ok

(***************************************************************************)
(* C9: on a Ready engine, search given an empty or non-string query, an    *)
(* empty collection or null is refused at once with the query's or the     *)
(* collection's InvalidArgument error: no result list, no request to the   *)
(* provider, and the engine and the collection are left as they were.  On  *)
(* an Uninitialized engine the same calls are refused with NotInitialized. *)
(***************************************************************************)
badSearchArgs(args) ==
  \/ args.query = "" \/ args.query = NotAString
  \/ args.props = "null" \/ properties = <<>>

C9_SearchRejectsEmptyInput ==
  [][\A c \in DOMAIN calls :
       (/\ calls[c].pc = "idle"
        /\ calls'[c].pc # "idle"
        /\ calls'[c].op = "search"
        /\ badSearchArgs(calls'[c].args)) =>
         /\ calls'[c].pc = "done"
         /\ calls'[c].requests = <<>>
         /\ calls'[c].outcome =
              Thrown(Err(IF ~isInitialized THEN MsgNotInitialized
                         ELSE IF calls'[c].args.query \in {"", NotAString} THEN MsgQuery
                         ELSE MsgProperties))
         /\ UNCHANGED <<properties, embedder, isInitialized, loading>>]_vars

\* A Ready engine refused a search over an empty collection.
C9_Witness ==
  \E c \in DoneCalls :
    /\ isInitialized
    /\ calls[c].op = "search"
    /\ calls[c].args.query = "q1"
    /\ properties = <<>>
    /\ calls[c].outcome = Thrown(Err(MsgProperties))

(***************************************************************************)
(* C10: multiSearch given no query, or a list holding an empty query       *)
(* string, does not return a result list (the claim as stated; the code    *)
(* checks neither).                                                        *)
(***************************************************************************)
C10_MultiSearchRejectsEmptyInput ==
  \A c \in DoneCalls :
    (/\ calls[c].op = "multiSearch"
     /\ \/ calls[c].args.queries = <<>>
        \/ \E i \in 1..Len(calls[c].args.queries) : calls[c].args.queries[i] = "") =>
      ~calls[c].outcome.ok

(***************************************************************************)
(* C11 (as stated): when the provider fails during search, the caller gets *)
(* the provider's own error, unchanged, after exactly one request.  The    *)
(* code replaces the error twice.                                          *)
(***************************************************************************)
someFailed(call) == \E i \in DOMAIN call.requests : call.requests[i] = "failed"

C12_MultiSearchAllOrNothing ==
  \A c \in DOMAIN calls :
    (calls[c].pc # "idle" /\ calls[c].op = "multiSearch") =>
      /\ someFailed(calls[c]) => (calls[c].pc = "done" /\ ~calls[c].outcome.ok)
      /\ (calls[c].pc = "done" /\ calls[c].outcome.ok) =>
           /\ Len(calls[c].requests) = Len(calls[c].args.queries)
           /\ \A i \in DOMAIN calls[c].requests : calls[c].requests[i] = "ok"

\* A multiSearch whose first request was answered and whose second failed.
C12_Witness ==
  \E c \in DoneCalls :
    /\ calls[c].op = "multiSearch"
    /\ calls[c].requests = <<"ok", "failed">>
    /\ ~calls[c].outcome.ok

(***************************************************************************)
(* C13: a record passes requiredAmenities iff every required amenity is,   *)
(* after case folding, a substring of some amenity of the record: a        *)
(* non-empty list never matches a record with no amenity, an empty or      *)
(* absent list matches every record.  Read off the calls that filter on    *)
(* amenities alone and return everything they rank.                        *)
(***************************************************************************)
containsFolded(hay, needle) ==
  \E i \in 1..(Len(hay) + 1) :
    /\ i + Len(needle) - 1 <= Len(hay)
    /\ toLowerCase(SubSeq(hay, i, i + Len(needle) - 1)) = toLowerCase(needle)

amenityRequirementMet(property, filters) ==
  LET required == IF "requiredAmenities" \in DOMAIN filters
                  THEN filters.requiredAmenities ELSE <<>>
  IN  \A k \in 1..Len(required) :
        \E m \in 1..Len(property.amenities) :
          containsFolded(property.amenities[m], required[k])

returnsRecord(call, id) ==
  \E i \in 1..Len(call.outcome.value) : call.outcome.value[i].id = id

C13_AmenityMatching ==
  \A c \in DoneCalls :
    (/\ calls[c].op \in {"search", "findSimilarProperties"}
     /\ calls[c].outcome.ok
     /\ reachedRanking(calls[c])
     /\ topKGiven(calls[c]) >= Len(properties)
     /\ DOMAIN filtersOf(calls[c]) \subseteq {"requiredAmenities"}) =>
      \A j \in 1..Len(properties) :
        LET property == properties[j]
            required == IF "requiredAmenities" \in DOMAIN filtersOf(calls[c])
                        THEN filtersOf(calls[c]).requiredAmenities ELSE <<>>
            ranked == calls[c].op = "search" => HasEmbedding(property)
        IN  /\ returnsRecord(calls[c], property.id) <=>
                 (amenityRequirementMet(property, filtersOf(calls[c])) /\ ranked)
            /\ (required # <<>> /\ property.amenities = <<>>) =>
                 ~returnsRecord(calls[c], property.id)
            /\ (required = <<>> /\ ranked) => returnsRecord(calls[c], property.id)

\* ['pet friendly'] kept the record whose amenities are ['Pet Friendly', 'parking']
\* and dropped one beside it.
C13_Witness ==
  \E c \in DoneCalls :
    /\ calls[c].op = "findSimilarProperties"
    /\ calls[c].outcome.ok
    /\ calls[c].args.filters = [requiredAmenities |-> <<PetFriendlyLower>>]
    /\ Len(properties) = 2
    /\ Len(calls[c].outcome.value) = 1
    /\ calls[c].outcome.value[1].amenities = <<PetFriendlyTitle, Parking>>

(***************************************************************************)
(* C14: for the collection and the filters of every filtering call, the    *)
(* filter is the identity under the empty FilterSpec, it is idempotent,    *)
(* its output is a subsequence of the input in the input's order, and the  *)
(* records the call ranks are exactly the records of that output.          *)
(***************************************************************************)
filterOf(call, records) ==
  IF call.op = "search"
  THEN applyFilters(records, filtersOf(call))
  ELSE filterProperties(records, filtersOf(call))

C14_FilterLaws ==
  \A c \in DoneCalls :
    (calls[c].op \in {"search", "findSimilarProperties"} /\ reachedRanking(calls[c])) =>
      LET once == filterOf(calls[c], properties)
          kept(id) == \E i \in 1..Len(once) : once[i].id = id
      IN  /\ filterOf(calls[c], once) = once
          /\ filtersOf(calls[c]) = <<>> => once = properties
          /\ Len(once) <= Len(properties)
          /\ \A i \in 1..Len(once) :
               /\ \E j \in 1..Len(properties) : properties[j] = once[i]
               /\ \A k \in (i + 1)..Len(once) :
                    placeOf(properties, once[i].id) < placeOf(properties, once[k].id)
          /\ (calls[c].outcome.ok /\ topKGiven(calls[c]) >= Len(properties)) =>
               \A j \in 1..Len(properties) :
                 returnsRecord(calls[c], properties[j].id) <=>
                   /\ kept(properties[j].id)
                   /\ calls[c].op = "search" => HasEmbedding(properties[j])

\* A filter dropped the first of two records and kept the second.
C14_Witness ==
  \E c \in DoneCalls :
    /\ calls[c].op = "findSimilarProperties"
    /\ calls[c].outcome.ok
    /\ calls[c].args.filters = [minPrice |-> 4000]
    /\ Len(properties) = 2
    /\ filterProperties(properties, calls[c].args.filters) = <<properties[2]>>

(***************************************************************************)
(* C15 (as stated, the centroid half): calculateCentroid over embeddings   *)
(* that do not all have the same length fails with the length error and    *)
(* returns no value.  The code checks no length: it returns a centroid     *)
(* with NaN coordinates or one that drops the extra coordinates.           *)
(***************************************************************************)
C15_CentroidRejectsMismatch ==
  \A c \in DoneCalls :
    (/\ calls[c].op = "calculateCentroid"
     /\ \E i, j \in 1..Len(calls[c].args.embeddings) :
          Len(calls[c].args.embeddings[i]) # Len(calls[c].args.embeddings[j])) =>
      calls[c].outcome = Thrown(Err(MsgLength))

(***************************************************************************)
(* C16: across any sequence of initialize() calls, also repeated and       *)
(* overlapping ones, the engine is Uninitialized (no provider, flag false) *)
(* or Ready (provider held, flag true) and nothing else; a failed          *)
(* initialize leaves flag and provider as they were; and no step at all    *)
(* takes a Ready engine back to Uninitialized.                             *)
(***************************************************************************)
C16_LifecycleNeverCorrupted ==
  /\ [](isInitialized <=> embedder = "pipeline")
  /\ [](embedder \in {"null", "pipeline"})
  /\ [][InitializeReject => UNCHANGED <<isInitialized, embedder>>]_vars
  /\ [][isInitialized => (isInitialized' /\ embedder' = "pipeline")]_vars
  /\ [][(~isInitialized /\ isInitialized') => (loading > 0 /\ loading' = loading - 1)]_vars

\* A Ready engine on which two further initialize() calls overlap.
C16_Witness == isInitialized /\ embedder = "pipeline" /\ loading > 1

(***************************************************************************)
(* C17: within one search or multiSearch call no filtering, scoring or     *)
(* sorting happens while an embedding request of the call is in flight.    *)
(* The step that settles the call with a ranking is taken only when every  *)
(* request of the call (one for search, one per query for multiSearch) has *)
(* been answered; a settled call that still has a request in flight was    *)
(* settled by a failed request and holds no ranking and no warning.        *)
(***************************************************************************)
inFlight(call) == \E i \in DOMAIN call.requests : call.requests[i] = "pending"

requestsOf(call) == IF call.op = "search" THEN 1 ELSE Len(call.args.queries)

C17_RankingAfterAllEmbeddings ==
  /\ [](\A c \in DoneCalls :
          (calls[c].op \in {"search", "multiSearch"} /\ inFlight(calls[c])) =>
            /\ someFailed(calls[c])
            /\ ~calls[c].outcome.ok
            /\ calls[c].warned = <<>>)
  /\ [][\A c \in DOMAIN calls :
          (/\ calls[c].pc = "awaiting"
           /\ calls[c].op \in {"search", "multiSearch"}
           /\ calls'[c].pc = "done"
           /\ ~someFailed(calls'[c])) =>
            /\ calls'[c].requests = calls[c].requests
            /\ Len(calls[c].requests) = requestsOf(calls[c])
            /\ ~inFlight(calls[c])]_vars

\* A multiSearch over two queries, both answered, that returned a ranking.
C17_Witness ==
  \E c \in DoneCalls :
    /\ calls[c].op = "multiSearch"
    /\ calls[c].requests = <<"ok", "ok">>
    /\ calls[c].outcome.ok
    /\ calls[c].outcome.value # <<>>

(***************************************************************************)
(* C18: under any interleaving of concurrent search and multiSearch calls  *)
(* on one engine, no step changes the record collection (same records,     *)
(* same order, same fields, no similarity field on an input record); a     *)
(* step of one call changes no other call and neither the flag nor the     *)
(* provider; and every settled call holds the result that its own          *)
(* arguments, the collection and its own requests give.                    *)
(***************************************************************************)
aloneOutcome(call) ==
  LET failed == Rewrap("Failed to generate embedding: ", Err(MsgProvider))
      queryEmbeddings ==
        [i \in 1..Len(call.args.queries) |-> embed(call.args.queries[i])]
  IN  IF someFailed(call)
      THEN Thrown(IF call.op = "search" THEN Rewrap("Search failed: ", failed) ELSE failed)
      ELSE IF call.requests = <<>> THEN Thrown(Err(MsgNotInitialized))
      ELSE IF call.op = "search"
      THEN searchRank(embed(call.args.query), properties, call.args.options)
      ELSE multiSearchRank(queryEmbeddings, call.args)

C18_ConcurrentSearchesReadOnly ==
  /\ [][properties' = properties]_vars
  /\ [](\A j \in 1..Len(properties) : "similarity" \notin DOMAIN properties[j])
  /\ [](\A c \in DoneCalls : calls[c].outcome = aloneOutcome(calls[c]))
  /\ [][\A c, d \in DOMAIN calls :
          (c # d /\ calls'[c] # calls[c]) =>
            /\ calls'[d] = calls[d]
            /\ UNCHANGED <<embedder, isInitialized, loading>>]_vars

\* A search that returned a ranking in another order than the collection's
\* while a multiSearch on the same collection had a request in flight.
C18_Witness ==
  \E c, d \in DOMAIN calls :
    /\ c # d
    /\ calls[c].pc = "done" /\ calls[c].op = "search" /\ calls[c].outcome.ok
    /\ Len(calls[c].outcome.value) = Len(properties)
    /\ calls[c].outcome.value[1].id # properties[1].id
    /\ calls[d].pc = "awaiting" /\ calls[d].op = "multiSearch" /\ inFlight(calls[d])
    /\ \E i \in DOMAIN calls[d].requests : calls[d].requests[i] = "ok"

====
